---- MODULE Spec2Model ----
(***************************************************************************)
(* Model of the eco-route engine: the per-edge fuel cost model and the     *)
(* dual shortest-path search of routing.py, the file-backed value cache of *)
(* cache_manager.py and the route pipeline of eco_route.py.                *)
(*                                                                         *)
(* Numbers are fixed-point integers.  Scales:                              *)
(*   speed            1/1000 km/h        multipliers, coefficients  1/1000 *)
(*   force            mN                 work                       mJ     *)
(*   efficiency       1/10000            fuel                       10 nL  *)
(*   slope            1/1000 (ratio)     drag_coefficient           1/100  *)
(*   frontal_area     1/10 m^2           energy density      0.1 MJ/L      *)
(* A Python dict is a function whose DOMAIN is the set of keys present.    *)
(***************************************************************************)
EXTENDS Integers, Sequences, FiniteSets, TLC

(***************************************************************************)
(* Bounds of the model.                                                    *)
(***************************************************************************)
NumNodes == 4
MaxEdges == 2
MaxParallel == 2

(***************************************************************************)
(* Arithmetic helpers.                                                     *)
(***************************************************************************)
Abs(x) == IF x < 0 THEN -x ELSE x

Min2(a, b) == IF a <= b THEN a ELSE b

\* Python float division rounds symmetrically; \div floors, so negative
\* numerators are divided by magnitude.
DivT(a, b) == IF a >= 0 THEN a \div b ELSE -((-a) \div b)

\* dict.get(key, default)
DictGet(d, key, default) == IF key \in DOMAIN d THEN d[key] ELSE default

RECURSIVE SumSeq(_)
SumSeq(s) == IF s = <<>> THEN 0 ELSE Head(s) + SumSeq(Tail(s))

(***************************************************************************)
(* math.exp(-y) for y >= 0, y and the result scaled by 10000: e^-1 to the  *)
(* integer part times the Taylor series of the fractional part.            *)
(***************************************************************************)
RECURSIVE ExpNegInt(_)
ExpNegInt(n) == IF n = 0 THEN 10000 ELSE (ExpNegInt(n - 1) * 3679) \div 10000

ExpNeg(y) ==
    LET n  == y \div 10000
        f  == y % 10000
        t2 == (f * f) \div 20000
        t3 == (t2 * f) \div 30000
        t4 == (t3 * f) \div 40000
        t5 == (t4 * f) \div 50000
        t6 == (t5 * f) \div 60000
        frac == 10000 - f + t2 - t3 + t4 - t5 + t6
    IN  IF n > 12 THEN 0 ELSE (ExpNegInt(n) * frac) \div 10000

(***************************************************************************)
(* math.sin(math.radians(slope)), slope in 1/1000, result in 1/1000000:    *)
(* x - x^3/6 with x = slope * pi / 180.                                    *)
(***************************************************************************)
SinRadians(slope) ==
    LET x  == DivT(slope * 17453, 1000)
        xm == DivT(x, 1000)
    IN  x - DivT(xm * xm * xm, 6000)

\* math.cos(math.radians(d)) for the wind directions of the model, as -1, 0, 1
CosRadians(d) == IF d = 0 THEN 1 ELSE IF d = 180 THEN -1 ELSE 0

(***************************************************************************)
(* routing.py: the cost model.                                             *)
(***************************************************************************)
\* F = 0.5 * rho * v^2 * Cd * A, speed in cm/s, result in mN
calculate_air_resistance(speed, vehicle_params) ==
    LET drag_coefficient == DictGet(vehicle_params, "drag_coefficient", 30)
        frontal_area     == DictGet(vehicle_params, "frontal_area", 22)
    IN  ((((speed * speed) * 49) \div 800) * (drag_coefficient * frontal_area)) \div 1000

calculate_rolling_resistance(vehicle_params, road_type) ==
    LET vehicle_weight == DictGet(vehicle_params, "weight", 1500)
        rolling_coefficients ==
            [highway |-> 10, primary |-> 15, secondary |-> 20,
             residential |-> 25, unpaved |-> 40]
        coefficient == DictGet(rolling_coefficients, road_type, 15)
    IN  (coefficient * vehicle_weight * 981) \div 100

\* wind_speed in m/s, speed in cm/s
calculate_wind_resistance(speed, wind_speed, wind_direction, vehicle_params) ==
    LET drag_coefficient == DictGet(vehicle_params, "drag_coefficient", 30)
        frontal_area     == DictGet(vehicle_params, "frontal_area", 22)
        effective_wind_speed == wind_speed * 100 * CosRadians(wind_direction)
        effective_speed == speed + effective_wind_speed
    IN  ((((effective_speed * effective_speed) * 49) \div 800)
            * (drag_coefficient * frontal_area)) \div 1000

\* as calculate_traffic_flow, without the cap at the speed limit
calculate_traffic_flow_uncapped(speed_limit, road_type, hour) ==
    LET free_flow_speeds ==
            [highway |-> 120, primary |-> 80, secondary |-> 60, residential |-> 40]
        vf == DictGet(free_flow_speeds, road_type, 60)
        density_factor ==
            IF (7 <= hour /\ hour <= 9) \/ (16 <= hour /\ hour <= 19)
            THEN 800 ELSE 300
    IN  vf * (1000 - density_factor)

\* Greenshields model; speed_limit in km/h, result in 1/1000 km/h
calculate_traffic_flow(speed_limit, road_type, hour) ==
    LET free_flow_speeds ==
            [highway |-> 120, primary |-> 80, secondary |-> 60, residential |-> 40]
        jam_densities ==
            [highway |-> 150, primary |-> 100, secondary |-> 80, residential |-> 60]
        vf == DictGet(free_flow_speeds, road_type, 60)
        kj == DictGet(jam_densities, road_type, 80)
        density_factor ==
            IF (7 <= hour /\ hour <= 9) \/ (16 <= hour /\ hour <= 19)
            THEN 800 ELSE 300
        k == kj * density_factor
        speed == vf * (1000 - (k \div kj))
    IN  Min2(speed, speed_limit * 1000)

calculate_weather_impact(weather_conditions, road_type) ==
    LET weather_factors ==
            [dry  |-> [speed_reduction |-> 0,   friction_reduction |-> 0],
             wet  |-> [speed_reduction |-> 100, friction_reduction |-> 200],
             snow |-> [speed_reduction |-> 300, friction_reduction |-> 500],
             ice  |-> [speed_reduction |-> 400, friction_reduction |-> 700]]
        road_sensitivity ==
            [highway |-> 8, primary |-> 10, secondary |-> 12, residential |-> 13]
        weather == DictGet(weather_factors, weather_conditions, weather_factors["dry"])
        road_factor == DictGet(road_sensitivity, road_type, 10)
        speed_reduction == (weather.speed_reduction * road_factor) \div 10
        friction_reduction == (weather.friction_reduction * road_factor) \div 10
    IN  [speed_multiplier |-> 1000 - speed_reduction,
         friction_multiplier |-> 1000 - friction_reduction]

\* max_efficiency * exp(-k * speed_diff^2); speed in 1/1000 km/h, k in 1/10000
EfficiencyCurve(speed, optimal_speed, max_efficiency, k) ==
    LET speed_diff == Abs(speed - optimal_speed * 1000) \div 10
    IN  (max_efficiency * ExpNeg((k * (speed_diff * speed_diff)) \div 10000)) \div 10000

calculate_vehicle_efficiency(speed, vehicle_params) ==
    LET fuel_type   == DictGet(vehicle_params, "fuel_type", "none")
        engine_type == DictGet(vehicle_params, "engine_type", "none")
    IN  IF fuel_type = "electric"
        THEN LET efficiency == EfficiencyCurve(speed, 50, 8500, 3)
             IN  IF "temperature" \in DOMAIN vehicle_params
                 THEN IF vehicle_params["temperature"] < 10
                      THEN (efficiency * 85) \div 100
                      ELSE IF vehicle_params["temperature"] > 30
                           THEN (efficiency * 90) \div 100
                           ELSE efficiency
                 ELSE efficiency
        ELSE IF fuel_type = "hybrid"
        THEN LET efficiency == EfficiencyCurve(speed, 60, 4500, 4)
             IN  IF speed < 30000 THEN (efficiency * 115) \div 100 ELSE efficiency
        ELSE LET efficiency == EfficiencyCurve(speed, 80, 3500, 5)
             IN  IF engine_type = "diesel" THEN (efficiency * 12) \div 10
                 ELSE IF engine_type = "turbo" THEN (efficiency * 11) \div 10
                 ELSE efficiency

\* the effective speed of calculate_fuel_consumption: the traffic-flow speed
\* times the weather speed multiplier
EffectiveSpeed(edge_data, vehicle_params, current_hour) ==
    LET speed_limit == DictGet(edge_data, "speed_kph", 50)
        road_type   == DictGet(edge_data, "highway", "primary")
        weather_conditions == DictGet(vehicle_params, "weather_conditions", "dry")
        weather_impact == calculate_weather_impact(weather_conditions, road_type)
    IN  (calculate_traffic_flow(speed_limit, road_type, current_hour)
            * weather_impact.speed_multiplier) \div 1000

\* current_hour is datetime.now().hour, read by the function itself
calculate_fuel_consumption(edge_data, vehicle_params, current_hour) ==
    LET length      == DictGet(edge_data, "length", 0)
        slope       == DictGet(edge_data, "slope", 0)
        road_type   == DictGet(edge_data, "highway", "primary")
        weather_conditions == DictGet(vehicle_params, "weather_conditions", "dry")
        weather_impact == calculate_weather_impact(weather_conditions, road_type)
        effective_speed == EffectiveSpeed(edge_data, vehicle_params, current_hour)
        speed_ms == effective_speed \div 36
        air_resistance ==
            calculate_air_resistance(speed_ms, vehicle_params)
            + (IF "wind_speed" \in DOMAIN vehicle_params
                  /\ "wind_direction" \in DOMAIN vehicle_params
               THEN calculate_wind_resistance(speed_ms, vehicle_params["wind_speed"],
                        vehicle_params["wind_direction"], vehicle_params)
               ELSE 0)
        rolling_resistance ==
            (calculate_rolling_resistance(vehicle_params, road_type)
                * weather_impact.friction_multiplier) \div 1000
        vehicle_weight == DictGet(vehicle_params, "weight", 1500)
        gravitational_force ==
            DivT(((vehicle_weight * 981) \div 100) * SinRadians(slope), 1000)
        total_force == air_resistance + rolling_resistance + gravitational_force
        work == total_force * length
        engine_efficiency == calculate_vehicle_efficiency(effective_speed, vehicle_params)
        fuel_energy_densities ==
            [petrol |-> 464, diesel |-> 456, electric |-> 36000, hybrid |-> 464]
        fuel_type == DictGet(vehicle_params, "fuel_type", "petrol")
        fuel_energy_density == DictGet(fuel_energy_densities, fuel_type, 464)
    IN  DivT(DivT(work * 100, engine_efficiency) * 100, fuel_energy_density)

\* a text float() rejects
Unparsable == -1

\* the profile of the except branch
FallbackParams ==
    [weight |-> 1500, drag_coefficient |-> 30, frontal_area |-> 22,
     optimal_speed |-> 80, max_efficiency |-> 3500, weather_conditions |-> "dry",
     temperature |-> 20, wind_speed |-> 0, wind_direction |-> 0]

\* get_vehicle_params; engine_displacement in 1/10 litre, the texts in lower
\* case, current_year is datetime.now().year
get_vehicle_params(engine_type, year, fuel_type, engine_displacement, transmission, drive_type, current_year) ==
    LET age == current_year - year
        weight ==
            1500
            + (IF engine_displacement > 20 THEN 100
               ELSE IF engine_displacement < 14 THEN -100 ELSE 0)
            + (IF drive_type \in {"awd", "4wd"} THEN 100 ELSE 0)
            + (IF fuel_type = "electric" THEN 200
               ELSE IF fuel_type = "hybrid" THEN 100 ELSE 0)
        frontal_area ==
            22 + (IF engine_displacement > 20 THEN 2
                  ELSE IF engine_displacement < 14 THEN -2 ELSE 0)
        by_engine ==
            IF engine_type = "turbo" THEN (3500 * 11) \div 10
            ELSE IF engine_type = "diesel" THEN (3500 * 12) \div 10 ELSE 3500
        by_transmission ==
            IF transmission = "automatic" THEN (by_engine * 9) \div 10
            ELSE IF transmission = "cvt" THEN (by_engine * 11) \div 10 ELSE by_engine
        by_drive ==
            IF drive_type \in {"awd", "4wd"} THEN (by_transmission * 9) \div 10
            ELSE by_transmission
        by_fuel ==
            IF fuel_type = "electric" THEN 8500
            ELSE IF fuel_type = "hybrid" THEN 4500 ELSE by_drive
        max_efficiency ==
            IF age > 10 THEN (by_fuel * 9) \div 10
            ELSE IF age < 5 THEN (by_fuel * 105) \div 100 ELSE by_fuel
        optimal_speed ==
            IF fuel_type = "electric" THEN 50
            ELSE IF fuel_type = "hybrid" THEN 60
            ELSE IF engine_type = "diesel" THEN 70 ELSE 80
    IN  IF engine_displacement = Unparsable THEN FallbackParams
        ELSE [weight |-> weight, drag_coefficient |-> 30, frontal_area |-> frontal_area,
              optimal_speed |-> optimal_speed, max_efficiency |-> max_efficiency,
              engine_type |-> engine_type, fuel_type |-> fuel_type,
              transmission |-> transmission, drive_type |-> drive_type,
              weather_conditions |-> "dry", temperature |-> 20,
              wind_speed |-> 0, wind_direction |-> 0]

(***************************************************************************)
(* The road graph: a networkx MultiDiGraph.  G maps every edge             *)
(* <<u, v, key>> to its attribute dict; the parallel-edge keys 0, 1, ...   *)
(* are written "0", "1", ... so that they live in one key space with the   *)
(* attribute names a dict lookup may be handed.                            *)
(***************************************************************************)
Nodes == 1 .. NumNodes

\* Python's None, in a place that otherwise holds a non-empty list of nodes
None == <<>>

KeyNames == <<"0", "1", "2", "3">>

EdgeKeys == {KeyNames[i] : i \in 1 .. MaxParallel}

\* G[u][v]: the dict key -> attribute dict of the parallel edges from u to v
AdjView(G, u, v) ==
    [key \in {k \in EdgeKeys : <<u, v, k>> \in DOMAIN G} |-> G[<<u, v, key>>]]

HasEdge(G, u, v) == \E k \in EdgeKeys : <<u, v, k>> \in DOMAIN G

RECURSIVE SortedSeq(_)
SortedSeq(S) ==
    IF S = {} THEN <<>>
    ELSE LET m == CHOOSE x \in S : \A y \in S : x <= y
         IN  <<m>> \o SortedSeq(S \ {m})

\* G._succ[v] and G._pred[v], iterated in the order the nodes were inserted
Successors(G, v) == SortedSeq({w \in Nodes : HasEdge(G, v, w)})

Predecessors(G, v) == SortedSeq({w \in Nodes : HasEdge(G, w, v)})

(***************************************************************************)
(* networkx, as called by nx.shortest_path(G, source, target, weight):     *)
(* the weight of a multigraph hop is the minimum over its parallel edges,  *)
(* and the search is bidirectional Dijkstra.                               *)
(***************************************************************************)
SetMin(S) == CHOOSE x \in S : \A y \in S : x <= y

\* as WeightFunction, but taking the first parallel edge instead of the least
WeightFunction_first(G, weight, u, v) ==
    LET d == AdjView(G, u, v)
        i == CHOOSE n \in 1 .. MaxParallel :
                /\ KeyNames[n] \in DOMAIN d
                /\ \A m \in 1 .. n - 1 : KeyNames[m] \notin DOMAIN d
    IN  DictGet(d[KeyNames[i]], weight, 1)

\* _weight_function: min(attr.get(weight, 1) for attr in d.values())
WeightFunction(G, weight, u, v) ==
    LET d == AdjView(G, u, v)
    IN  SetMin({DictGet(d[key], weight, 1) : key \in DOMAIN d})

\* heap order of the fringe entries <<distance, counter, node>>
FringeTop(fringe) ==
    CHOOSE t \in fringe : \A o \in fringe :
        t[1] < o[1] \/ (t[1] = o[1] /\ t[2] <= o[2])

Reverse(s) == [i \in 1 .. Len(s) |-> s[Len(s) + 1 - i]]

\* one pass of "for w, d in neighs[dir][v].items()"; d is 1 forward, 2 backward
RECURSIVE Relax(_, _, _, _, _, _)
Relax(G, weight, st, d, v, ws) ==
    IF ws = <<>> THEN st
    ELSE
      LET w    == Head(ws)
          cost == IF d = 1 THEN WeightFunction(G, weight, v, w)
                           ELSE WeightFunction(G, weight, w, v)
          vwLength == st.dists[d][v] + cost
      IN  IF w \in DOMAIN st.dists[d]
          THEN IF vwLength < st.dists[d][w]
               THEN [st EXCEPT !.raised = TRUE]
               ELSE Relax(G, weight, st, d, v, Tail(ws))
          ELSE IF w \notin DOMAIN st.seen[d] \/ vwLength < st.seen[d][w]
          THEN
            LET seen  == [st.seen EXCEPT ![d] = (w :> vwLength) @@ @]
                paths == [st.paths EXCEPT ![d] = (w :> Append(@[v], w)) @@ @]
                st1   == [st EXCEPT !.seen = seen, !.paths = paths, !.c = @ + 1,
                            !.fringe[d] = @ \cup {<<vwLength, st.c, w>>}]
                totaldist == seen[1][w] + seen[2][w]
                st2   == IF w \in DOMAIN seen[1] /\ w \in DOMAIN seen[2]
                            /\ (st.finalpath = <<>> \/ st.finaldist > totaldist)
                         THEN [st1 EXCEPT !.finaldist = totaldist,
                                 !.finalpath = paths[1][w] \o Tail(Reverse(paths[2][w]))]
                         ELSE st1
            IN  Relax(G, weight, st2, d, v, Tail(ws))
          ELSE Relax(G, weight, st, d, v, Tail(ws))

RECURSIVE BidirectionalLoop(_, _, _)
BidirectionalLoop(G, weight, st) ==
    IF st.fringe[1] = {} \/ st.fringe[2] = {}
    THEN [outcome |-> "NetworkXNoPath", dist |-> 0, path |-> <<>>]
    ELSE
      LET d    == 3 - st.dir
          top  == FringeTop(st.fringe[d])
          dist == top[1]
          v    == top[3]
          popped == [st EXCEPT !.dir = d, !.fringe[d] = @ \ {top}]
      IN  IF v \in DOMAIN st.dists[d]
          THEN BidirectionalLoop(G, weight, popped)
          ELSE
            LET st1 == [popped EXCEPT !.dists[d] = (v :> dist) @@ @]
            IN  IF v \in DOMAIN st1.dists[3 - d]
                THEN [outcome |-> "path", dist |-> st1.finaldist, path |-> st1.finalpath]
                ELSE
                  LET st2 == Relax(G, weight, st1, d, v,
                                 IF d = 1 THEN Successors(G, v) ELSE Predecessors(G, v))
                  IN  IF st2.raised
                      THEN [outcome |-> "ValueError", dist |-> 0, path |-> <<>>]
                      ELSE BidirectionalLoop(G, weight, st2)

\* the state of the search before its first iteration
InitialSearch(source, target) ==
    [dists  |-> << <<>>, <<>> >>,
     paths  |-> << (source :> <<source>>), (target :> <<target>>) >>,
     fringe |-> << {<<0, 0, source>>}, {<<0, 1, target>>} >>,
     seen   |-> << (source :> 0), (target :> 0) >>,
     c      |-> 2,
     finaldist |-> 0,
     finalpath |-> <<>>,
     dir    |-> 2,
     raised |-> FALSE]

\* as bidirectional_dijkstra, without the early return for source = target
bidirectional_dijkstra_noshortcut(G, source, target, weight) ==
    BidirectionalLoop(G, weight, InitialSearch(source, target))

bidirectional_dijkstra(G, source, target, weight) ==
    IF source = target
    THEN [outcome |-> "path", dist |-> 0, path |-> <<source>>]
    ELSE BidirectionalLoop(G, weight, InitialSearch(source, target))

(***************************************************************************)
(* routing.py: find_shortest_and_eco_route.                                *)
(***************************************************************************)
\* d[key] = value
SetItem(d, key, value) ==
    [k \in DOMAIN d \cup {key} |-> IF k = key THEN value ELSE d[k]]

\* the loop that stores shortest_weight and eco_weight on every edge
AssignWeights(G, vehicle_params, current_hour) ==
    [e \in DOMAIN G |->
        LET data == SetItem(G[e], "shortest_weight", DictGet(G[e], "length", 0))
        IN  SetItem(data, "eco_weight",
                    calculate_fuel_consumption(data, vehicle_params, current_hour))]

\* sum(G[u][v].get(attr, 0) for u, v in zip(path[:-1], path[1:]))
PathAggregate(G, path, attr) ==
    SumSeq([i \in 1 .. Len(path) - 1 |->
                DictGet(AdjView(G, path[i], path[i + 1]), attr, 0)])

\* the outcome of the try block when a search raised
Raised(G1, exception) ==
    [outcome |-> "raise", exception |-> exception, G |-> G1,
     shortest_path |-> None, eco_path |-> None,
     shortest_distance |-> 0, eco_distance |-> 0,
     shortest_fuel |-> 0, eco_fuel |-> 0]

\* the rest of the try block after both searches: the aggregates of the paths
Aggregates(G1, shortest, eco) ==
    IF shortest.outcome # "path" THEN Raised(G1, shortest.outcome)
    ELSE IF eco.outcome # "path" THEN Raised(G1, eco.outcome)
    ELSE [outcome |-> "return", exception |-> None, G |-> G1,
          shortest_path |-> shortest.path,
          eco_path |-> eco.path,
          shortest_distance |-> PathAggregate(G1, shortest.path, "length"),
          eco_distance |-> PathAggregate(G1, eco.path, "length"),
          shortest_fuel |-> PathAggregate(G1, shortest.path, "eco_weight"),
          eco_fuel |-> PathAggregate(G1, eco.path, "eco_weight")]

\* the try block: both searches, then the aggregates of the two paths
TryRoutes(G1, start_node, end_node) ==
    Aggregates(G1,
               bidirectional_dijkstra(G1, start_node, end_node, "shortest_weight"),
               bidirectional_dijkstra(G1, start_node, end_node, "eco_weight"))

\* except nx.NetworkXNoPath: return None, None
ExceptNoPath(r) ==
    IF r.outcome = "raise" /\ r.exception = "NetworkXNoPath"
    THEN [r EXCEPT !.outcome = "return", !.exception = None]
    ELSE r

\* as find_shortest_and_eco_route, without the except clause
find_shortest_and_eco_route_uncaught(G, start_node, end_node, vehicle_params, current_hour) ==
    TryRoutes(AssignWeights(G, vehicle_params, current_hour), start_node, end_node)

find_shortest_and_eco_route(G, start_node, end_node, vehicle_params, current_hour) ==
    ExceptNoPath(TryRoutes(AssignWeights(G, vehicle_params, current_hour),
                           start_node, end_node))

(***************************************************************************)
(* Inputs of the routing engine.                                           *)
(***************************************************************************)
\* the profile get_vehicle_params builds for a recent petrol car
DefaultProfile ==
    [weight |-> 1500, drag_coefficient |-> 30, frontal_area |-> 22,
     optimal_speed |-> 80, max_efficiency |-> 3675,
     engine_type |-> "standard", fuel_type |-> "petrol",
     transmission |-> "manual", drive_type |-> "fwd",
     weather_conditions |-> "dry", temperature |-> 20,
     wind_speed |-> 0, wind_direction |-> 0]

RouteProfiles == {DefaultProfile}

RouteHours == {12}

\* a short flat street with no road class and no speed limit recorded, a
\* longer gently descending highway, a short steep descent
EdgeKinds ==
    {[length |-> 1, slope |-> 0],
     [length |-> 5, slope |-> -1000, highway |-> "highway", speed_kph |-> 50],
     [length |-> 1, slope |-> -3000, highway |-> "primary", speed_kph |-> 50]}

EdgeSlots == {<<u, v, KeyNames[i]>> : u \in Nodes, v \in Nodes, i \in 1 .. MaxParallel}

\* key i+1 of a node pair exists only when key i does; no self-loops
SlotFits(E, e) ==
    /\ e[1] # e[2]
    /\ e \notin E
    /\ \A i \in 2 .. MaxParallel :
          e[3] = KeyNames[i] => <<e[1], e[2], KeyNames[i - 1]>> \in E

RECURSIVE EdgeSets(_)
EdgeSets(n) ==
    IF n = 0 THEN {{}}
    ELSE LET smaller == EdgeSets(n - 1)
         IN  smaller \cup
             UNION {{E \cup {e} : e \in {x \in EdgeSlots : SlotFits(E, x)}} : E \in smaller}

\* every multigraph on Nodes with at most n edges drawn from EdgeKinds
Graphs(n) == UNION {[E -> EdgeKinds] : E \in EdgeSets(n)}

(***************************************************************************)
(* Inputs of the cost model: one edge, one profile, the hour of the clock. *)
(***************************************************************************)
\* the road classes of the tables, and one that is in none of them
RoadClasses == {"highway", "primary", "secondary", "residential", "unpaved"}

OtherClasses == {"tertiary"}

SpeedLimits == {30, 90}

Hours == 0 .. 23

Weathers == {"dry", "wet", "snow", "ice", "fog"}

BareEdges == {[length |-> 1, slope |-> 0]}

ClassedEdges ==
    BareEdges \cup {SetItem(e, "highway", c) :
                       e \in BareEdges, c \in RoadClasses \cup OtherClasses}

\* edges with and without a road class and a speed limit
FuelEdges ==
    ClassedEdges \cup {SetItem(e, "speed_kph", l) : e \in ClassedEdges, l \in SpeedLimits}

\* a recent and an old petrol car, a diesel, an electric and a hybrid car,
\* and the profile of a displacement that is no number
Vehicles ==
    {get_vehicle_params("standard", 2023, "petrol", 16, "manual", "fwd", 2025),
     get_vehicle_params("standard", 2010, "petrol", 16, "manual", "fwd", 2025),
     get_vehicle_params("diesel", 2023, "diesel", 16, "manual", "fwd", 2025),
     get_vehicle_params("standard", 2023, "electric", 16, "automatic", "fwd", 2025),
     get_vehicle_params("standard", 2023, "hybrid", 16, "cvt", "fwd", 2025),
     get_vehicle_params("standard", 2023, "petrol", Unparsable, "manual", "fwd", 2025)}

\* the profiles with the weather the caller sets on them
FuelProfiles == {[v EXCEPT !["weather_conditions"] = w] : v \in Vehicles, w \in Weathers}

\* one call of calculate_fuel_consumption: what it returns, and the
\* effective speed and the engine efficiency it computes on the way
FuelCall(edge_data, vehicle_params, current_hour) ==
    [op |-> "call", hour |-> current_hour,
     fuel |-> calculate_fuel_consumption(edge_data, vehicle_params, current_hour),
     effective_speed |-> EffectiveSpeed(edge_data, vehicle_params, current_hour),
     engine_efficiency |->
         calculate_vehicle_efficiency(
             EffectiveSpeed(edge_data, vehicle_params, current_hour), vehicle_params)]

(***************************************************************************)
(* cache_manager.py.  A Python value is [type, v]; a JSON document is      *)
(* [json, v]; a params dict is the sequence of its <<field, value>> pairs  *)
(* in insertion order.                                                     *)
(***************************************************************************)
PyNone == [type |-> "NoneType"]

PyInt(n) == [type |-> "int", n |-> n]

PyStr(str) == [type |-> "str", s |-> str]

PyList(items) == [type |-> "list", items |-> items]

PyTuple(items) == [type |-> "tuple", items |-> items]

\* an object the json module has no encoding for, such as a graph
PyObject == [type |-> "object"]

\* text that is no JSON document: an empty or cut-off file
Corrupt == [json |-> "corrupt"]

RECURSIVE Serializable(_)
Serializable(value) ==
    CASE value.type \in {"list", "tuple"} ->
            \A i \in 1 .. Len(value.items) : Serializable(value.items[i])
      [] value.type = "object" -> FALSE
      [] OTHER -> TRUE

\* json.dump of a serializable value: lists and tuples both become arrays
RECURSIVE Dumps(_)
Dumps(value) ==
    CASE value.type \in {"list", "tuple"} ->
            [json |-> "array",
             items |-> [i \in 1 .. Len(value.items) |-> Dumps(value.items[i])]]
      [] value.type = "int" -> [json |-> "number", n |-> value.n]
      [] value.type = "str" -> [json |-> "string", s |-> value.s]
      [] OTHER -> [json |-> "null"]

\* json.load of a document: arrays become lists
RECURSIVE Loads(_)
Loads(doc) ==
    CASE doc.json = "array" ->
            PyList([i \in 1 .. Len(doc.items) |-> Loads(doc.items[i])])
      [] doc.json = "number" -> PyInt(doc.n)
      [] doc.json = "string" -> PyStr(doc.s)
      [] OTHER -> PyNone

\* the field names of the model in the order sort_keys puts them
FieldNames == <<"batch_size", "city", "coords", "country", "end_lat", "end_lon",
                "network_type", "start_lat", "start_lon">>

FieldRank(name) == CHOOSE i \in 1 .. Len(FieldNames) : FieldNames[i] = name

\* the pairs of a dict ordered by field name
RECURSIVE SortKeys(_)
SortKeys(pairs) ==
    IF pairs = {} THEN <<>>
    ELSE LET first == CHOOSE x \in pairs :
                          \A y \in pairs : FieldRank(x[1]) <= FieldRank(y[1])
         IN  <<first>> \o SortKeys(pairs \ {first})

\* the dict as Python compares it: its items, whatever their order
Items(data) == {data[i] : i \in 1 .. Len(data)}

\* whether json.dumps(data) raises TypeError: a value it cannot encode
DumpsRaises(data) == \E i \in 1 .. Len(data) : ~Serializable(data[i][2])

\* as _get_cache_key, serializing the fields in insertion order
get_cache_key_unsorted(data) ==
    [i \in 1 .. Len(data) |-> <<data[i][1], Dumps(data[i][2])>>]

\* sha1(json.dumps(data, sort_keys=True)): the digest is taken to be
\* collision-free and is represented by the text it is computed from
get_cache_key(data) ==
    SortKeys({<<data[i][1], Dumps(data[i][2])>> : i \in 1 .. Len(data)})

\* how a call of get_cached_data or of save_to_cache ends: both compute the
\* key before they enter their try block
CallOutcome(data) == IF DumpsRaises(data) THEN "raise" ELSE "return"

\* self.cache_dir / f"{data_type}_{cache_key}.json"
CacheFile(cache_dir, data_type, data) == <<cache_dir, data_type, get_cache_key(data)>>

\* get_cached_data: the value returned; io is "read_error" when open or read fails
get_cached_data(files, cache_dir, data_type, data, io) ==
    LET cache_file == CacheFile(cache_dir, data_type, data)
    IN  IF cache_file \in DOMAIN files
        THEN IF io = "read_error" \/ files[cache_file] = Corrupt
             THEN PyNone
             ELSE Loads(files[cache_file])
        ELSE PyNone

\* save_to_cache: the files afterwards.  io is "open_error" when the file
\* cannot be opened for writing and "write_error" when writing it fails; an
\* opened file is truncated, and a dump that does not finish leaves text that
\* is no JSON document.
save_to_cache(files, cache_dir, data_type, data, result, io) ==
    LET cache_file == CacheFile(cache_dir, data_type, data)
        content == IF io = "ok" /\ Serializable(result) THEN Dumps(result) ELSE Corrupt
    IN  IF io = "open_error" THEN files
        ELSE [f \in DOMAIN files \cup {cache_file} |->
                 IF f = cache_file THEN content ELSE files[f]]

\* whether the call above wrote the whole of result
SaveWrites(result, io) == io = "ok" /\ Serializable(result)

(***************************************************************************)
(* Inputs of the cache.                                                    *)
(***************************************************************************)
\* two CacheManager objects on the default directory
Managers == {1, 2}

cache_dir == [m \in Managers |-> "cache"]

\* the same city_map params with the fields inserted in either order, and
\* the params of another city
ParamsSet ==
    {<< <<"city", PyStr("Ankara")>>, <<"country", PyStr("Turkey")>> >>,
     << <<"country", PyStr("Turkey")>>, <<"city", PyStr("Ankara")>> >>,
     << <<"city", PyStr("Izmir")>>, <<"country", PyStr("Turkey")>> >>}

\* elevations params whose coords are an object json cannot encode
UnencodableParams == << <<"coords", PyObject>>, <<"batch_size", PyInt(100)>> >>

\* the lookups the callers make: (dataset, params)
CacheCalls ==
    {<<"city_map", data>> : data \in ParamsSet} \cup {<<"elevations", UnencodableParams>>}

\* a list of elevations, the same as a tuple, a graph object
CacheValues ==
    {PyList(<<PyInt(1), PyInt(0)>>),
     PyTuple(<<PyInt(1), PyInt(0)>>),
     PyObject}

\* a (dataset, params) pair as Python compares it
CacheKey(data_type, data) == <<data_type, Items(data)>>

NoOp == [op |-> "none"]

(***************************************************************************)
(* save_to_cache step by step, for calls that overlap.  The text of a      *)
(* file is a sequence of tokens.  open(cache_file, 'w') truncates the      *)
(* file and gives the caller a position of its own, 0; json.dump writes    *)
(* into the buffer of the file object, which reaches the file one buffer   *)
(* at a time, at the caller's position; close writes the rest.             *)
(***************************************************************************)
\* tokens of the file object's buffer
BufferSize == 4

\* the longest list among the documents a file is parsed into
MaxItems == 2

DigitText == <<"0", "1", "2", "3", "4", "5", "6", "7", "8", "9">>

\* the text json.dump writes for a document
RECURSIVE Text(_), JoinText(_)
Text(doc) ==
    CASE doc.json = "array" -> <<"[">> \o JoinText(doc.items) \o <<"]">>
      [] doc.json = "number" -> <<DigitText[doc.n + 1]>>
      [] doc.json = "string" -> <<"\"", doc.s, "\"">>
      [] OTHER -> <<"null">>

JoinText(items) ==
    IF items = <<>> THEN <<>>
    ELSE IF Len(items) = 1 THEN Text(items[1])
    ELSE Text(items[1]) \o <<",">> \o JoinText(Tail(items))

\* the numbers of the lists of the model
ItemValues == {0, 1, 7}

\* the documents a text of the model can be the text of
Documents ==
    {Dumps(PyList(items)) :
        items \in UNION {[1 .. n -> {PyInt(d) : d \in ItemValues}] : n \in 0 .. MaxItems}}

\* json.load's parse of a text: the document it is the text of, if any
ParseText(text) ==
    IF \E doc \in Documents : Text(doc) = text
    THEN CHOOSE doc \in Documents : Text(doc) = text
    ELSE Corrupt

\* write(chunk) at position pos of a file; a gap is filled with NUL
WriteAt(text, pos, chunk) ==
    [i \in 1 .. (IF Len(text) > pos + Len(chunk) THEN Len(text) ELSE pos + Len(chunk)) |->
        IF pos < i /\ i <= pos + Len(chunk) THEN chunk[i - pos]
        ELSE IF i <= Len(text) THEN text[i]
        ELSE "NUL"]

\* the next buffer of a text from position pos on
NextBuffer(text, pos) ==
    SubSeq(text, pos + 1, Min2(pos + BufferSize, Len(text)))

\* the calls that overlap, their key, and the lists they store
Writers == {1, 2}

WriterParams == << <<"city", PyStr("Ankara")>>, <<"country", PyStr("Turkey")>> >>

WriterValues ==
    {PyList(<<PyInt(1), PyInt(0)>>), PyList(<<PyInt(7)>>), PyList(<<PyInt(7), PyInt(1)>>)}

\* the cache directory with the one file of the overlapping calls
FilesOf(disk) ==
    IF disk.exists
    THEN [f \in {CacheFile("cache", "city_map", WriterParams)} |-> ParseText(disk.text)]
    ELSE <<>>

(***************************************************************************)
(* eco_route.main: obtain the map, snap the two points to nodes, fetch     *)
(* the elevations, compute the slopes and route.  The file system is       *)
(* taken to work during the call; the map provider and the elevation       *)
(* provider are inputs.  A cached graph document stands for the graph it   *)
(* was made from.                                                          *)
(***************************************************************************)
\* the y and x (latitude, longitude) of a node of the map
NodeCoord(n) == <<390 + n, 320 + n>>

\* ox.nearest_nodes for a point that is a node's own position
nearest_nodes(y, x) == CHOOSE n \in Nodes : NodeCoord(n) = <<y, x>>

\* a / b: the quotient, or ZeroDivisionError
PyDivide(a, b) ==
    IF b = 0 THEN [raised |-> TRUE, value |-> 0]
    ELSE [raised |-> FALSE, value |-> DivT(a, b)]

\* as EdgeSlope, dividing whatever the length
EdgeSlope_unguarded(data, elev_u, elev_v) ==
    PyDivide((elev_v - elev_u) * 1000, DictGet(data, "length", 1))

\* the body of the loop of calculate_slope: the slope of one edge, in
\* thousandths, from the elevations of its two nodes in metres
EdgeSlope(data, elev_u, elev_v) ==
    IF DictGet(data, "length", 1) > 0
    THEN PyDivide((elev_v - elev_u) * 1000, DictGet(data, "length", 1))
    ELSE [raised |-> FALSE, value |-> 0]

\* the slope calculate_slope computes for edge e; elevation maps the nodes
\* that carry an elevation to it
SlopeOf(G, elevation, e) ==
    EdgeSlope(G[e], DictGet(elevation, e[1], 0), DictGet(elevation, e[2], 0))

\* whether calculate_slope raises
SlopeRaises(G, elevation) == \E e \in DOMAIN G : SlopeOf(G, elevation, e).raised

\* calculate_slope: the graph with the slope of every edge
calculate_slope(G, elevation) ==
    [e \in DOMAIN G |-> SetItem(G[e], "slope", SlopeOf(G, elevation, e).value)]

\* edges of length 0, 2 and 7 m and an edge without a length
SlopeEdgeKinds ==
    {[highway |-> "primary"], [highway |-> "primary", length |-> 0],
     [highway |-> "primary", length |-> 2], [highway |-> "primary", length |-> 7]}

\* the graphs between the first two nodes, and the elevations their nodes
\* may carry
SlopeGraphs ==
    UNION {[E -> SlopeEdgeKinds] :
              E \in {X \in EdgeSets(MaxEdges) : \A e \in X : e[1] <= 2 /\ e[2] <= 2}}

NodeElevations == UNION {[N -> {0, 4, 10}] : N \in SUBSET {1, 2}}

\* the json document of a graph
GraphJson == PyStr("graph")

\* a list of (lat, lon) tuples as a Python value
CoordsValue(coords) ==
    PyList([i \in 1 .. Len(coords) |-> PyTuple(<<PyInt(coords[i][1]),
                                                 PyInt(coords[i][2])>>)])

\* a list of numbers as a Python value, and back
NumberList(numbers) == PyList([i \in 1 .. Len(numbers) |-> PyInt(numbers[i])])

NumbersOf(list) == [i \in 1 .. Len(list.items) |-> list.items[i].n]

Zeros(n) == [i \in 1 .. n |-> 0]

\* the loop of get_elevations from coordinate i on: responses[b] is what the
\* request of batch b brings, [status |-> "OK", results |-> the elevations of
\* its results] or a failure (an exception, a status that is not OK)
RECURSIVE ElevationBatches(_, _, _, _, _)
ElevationBatches(coords, batch_size, responses, i, elevations) ==
    IF i >= Len(coords) THEN elevations
    ELSE LET batch == SubSeq(coords, i + 1, Min2(i + batch_size, Len(coords)))
             response == responses[(i \div batch_size) + 1]
         IN  ElevationBatches(coords, batch_size, responses, i + batch_size,
                 elevations \o (IF response.status = "OK" THEN response.results
                                ELSE Zeros(Len(batch))))

\* the elevations past the loop: [0] * n is empty for a negative n
PadElevations(elevations, total_coords) ==
    IF Len(elevations) # total_coords
    THEN elevations \o Zeros(total_coords - Len(elevations))
    ELSE elevations

\* the cache after get_elevations has saved the elevations
SaveElevations(files, cache_data, elevations) ==
    [elevations |-> elevations, hit |-> FALSE,
     files |-> save_to_cache(files, "cache", "elevations", cache_data,
                             NumberList(elevations), "ok")]

\* get_elevations(coords, batch_size): the list returned and the cache left
GetElevations(files, coords, batch_size, responses, cache_data) ==
    IF get_cached_data(files, "cache", "elevations", cache_data, "ok") # PyNone
    THEN [elevations |-> NumbersOf(get_cached_data(files, "cache", "elevations",
                                                   cache_data, "ok")),
          hit |-> TRUE, files |-> files]
    ELSE SaveElevations(files, cache_data,
             PadElevations(ElevationBatches(coords, batch_size, responses, 0, <<>>),
                           Len(coords)))

\* the params get_elevations looks its result up under
ElevationParams(coords, batch_size) ==
    << <<"coords", CoordsValue(coords)>>, <<"batch_size", PyInt(batch_size)>> >>

\* get_elevations for the nodes of the map, with the default batch size: a
\* cache hit, or else the answer of the provider, which is saved
get_elevations(files, answer) ==
    GetElevations(files, [n \in Nodes |-> NodeCoord(n)], 100,
                  <<[status |-> "OK", results |-> answer]>>,
                  ElevationParams([n \in Nodes |-> NodeCoord(n)], 100))

\* download_city_map: the graph, or None when the provider fails
download_city_map(files, city_name, map, G) ==
    LET data == << <<"city", PyStr(city_name)>>, <<"country", PyStr("Turkey")>> >>
        cached_graph == get_cached_data(files, "cache", "city_map", data, "ok")
    IN  IF cached_graph # PyNone
        THEN [obtained |-> TRUE, G |-> G, files |-> files]
        ELSE IF map = "ok"
        THEN [obtained |-> TRUE, G |-> G,
              files |-> save_to_cache(files, "cache", "city_map", data,
                                      GraphJson, "ok")]
        ELSE [obtained |-> FALSE, G |-> None, files |-> files]

\* the branch of main without a city: the cached map of the two points, or
\* generate_graph, whose exception main lets through: the ValueError it
\* raises itself on a map without nodes ("empty"), or that of the provider
MapOfPoints(files, start, end, map, G) ==
    LET map_cache_data ==
            << <<"start_lat", PyInt(start[1])>>, <<"start_lon", PyInt(start[2])>>,
               <<"end_lat", PyInt(end[1])>>, <<"end_lon", PyInt(end[2])>>,
               <<"network_type", PyStr("drive")>> >>
        cached_graph == get_cached_data(files, "cache", "map", map_cache_data, "ok")
    IN  IF cached_graph # PyNone
        THEN [obtained |-> TRUE, G |-> G, files |-> files]
        ELSE IF map = "ok"
        THEN [obtained |-> TRUE, G |-> G,
              files |-> save_to_cache(files, "cache", "map", map_cache_data,
                                      GraphJson, "ok")]
        ELSE [obtained |-> FALSE, G |-> None, files |-> files,
              exception |-> IF map = "empty" THEN "ValueError" ELSE "ConnectionError"]

\* what main hands back, with the graph and the cache it leaves
Done(outcome, value, G, files) ==
    [outcome |-> outcome, value |-> value, exception |-> "", G |-> G, files |-> files]

\* an exception main lets through
RaisedBy(exception, G, files) ==
    [outcome |-> "raise", value |-> <<>>, exception |-> exception, G |-> G,
     files |-> files]

\* the end of main: the coordinates of the two routes
MainRoutes(e, r) ==
    IF r.outcome = "raise"
    THEN RaisedBy(r.exception, r.G, e.files)
    ELSE IF r.shortest_path = None \/ r.eco_path = None
    THEN Done("return", <<None, None>>, r.G, e.files)
    ELSE Done("return",
              << [i \in 1 .. Len(r.shortest_path) |-> NodeCoord(r.shortest_path[i])],
                 [i \in 1 .. Len(r.eco_path) |->
                     NodeCoord(r.eco_path[i]) \o <<e.elevations[r.eco_path[i]]>>] >>,
              r.G, e.files)

\* main from the elevations on: the slopes, then the routes
MainElevations(m, e, orig_node, dest_node, vehicle_params, current_hour) ==
    MainRoutes(e, find_shortest_and_eco_route(calculate_slope(m.G, e.elevations),
                                              orig_node, dest_node,
                                              vehicle_params, current_hour))

\* main once the map was asked for
MainMap(m, G, orig_node, dest_node, vehicle_params, current_hour, city_name, answer) ==
    IF ~m.obtained
    THEN IF city_name # ""
         THEN Done("return", <<None, None>>, G, m.files)
         ELSE RaisedBy(m.exception, G, m.files)
    ELSE IF orig_node = dest_node
    THEN Done("return", <<None, None>>, m.G, m.files)
    ELSE MainElevations(m, get_elevations(m.files, answer), orig_node, dest_node,
                        vehicle_params, current_hour)

\* main: what it returns or raises, and the graph and the cache it leaves.
\* start and end are the two points as (lat, lon); map is how the map provider
\* answers and answer what the elevation provider answers.
main(files, G, start, end, vehicle_params, current_hour, city_name, map, answer) ==
    MainMap(IF city_name # ""
            THEN download_city_map(files, city_name, map, G)
            ELSE MapOfPoints(files, start, end, map, G),
            G, nearest_nodes(start[1], start[2]), nearest_nodes(end[1], end[2]),
            vehicle_params, current_hour, city_name, answer)

(***************************************************************************)
(* main.py: route_handler, the handler of POST /route.                     *)
(***************************************************************************)
\* two places the geocoder finds, at the two ends of the map, and one it
\* does not find
Places == {"Kizilay", "Ulus", "Atlantis"}

\* osmnx.geocoder.geocode: the (lat, lon) of a place, or an exception
geocode(query) ==
    IF query = "Kizilay" THEN [raised |-> FALSE, point |-> NodeCoord(1)]
    ELSE IF query = "Ulus" THEN [raised |-> FALSE, point |-> NodeCoord(NumNodes)]
    ELSE [raised |-> TRUE, point |-> <<>>]

\* str.lower on the texts of a vehicle
Lower(text) ==
    IF text = "FWD" THEN "fwd"
    ELSE IF text = "RWD" THEN "rwd"
    ELSE IF text = "AWD" THEN "awd"
    ELSE IF text = "4WD" THEN "4wd"
    ELSE text

\* datetime.now().year
ThisYear == 2025

\* the vehicles of the requests, as the validators of Vehicle leave them:
\* fuel_type in lower case, drive_type in upper case, a year up to 2024 and
\* a positive displacement (in 1/10 litre)
VehicleRequests ==
    {[model |-> "Clio", engine_type |-> "standard", year |-> 2023,
      fuel_type |-> "petrol", engine_displacement |-> 16,
      transmission |-> "manual", drive_type |-> "FWD"],
     [model |-> "Passat", engine_type |-> "diesel", year |-> 2012,
      fuel_type |-> "diesel", engine_displacement |-> 21,
      transmission |-> "automatic", drive_type |-> "AWD"]}

\* get_vehicle_params(**req.vehicle.dict()): the keys of the dict are the
\* parameters of get_vehicle_params, which lowers the texts itself and
\* lets no exception through
VehicleParams(vehicle) ==
    get_vehicle_params(Lower(vehicle.engine_type), vehicle.year,
                       Lower(vehicle.fuel_type), vehicle.engine_displacement,
                       Lower(vehicle.transmission), Lower(vehicle.drive_type),
                       ThisYear)

\* what the call of find_routes in the handler did
Computed(r) == [outcome |-> r.outcome, value |-> r.value, exception |-> r.exception]

\* the handler did not reach the call
NotCalled == [outcome |-> "none", value |-> <<>>, exception |-> ""]

\* raise HTTPException(status_code, detail); the except HTTPException
\* clause of the handler raises it again
HTTPException(status_code, detail, computed, G, files) ==
    [op |-> "raise", status |-> status_code, message |-> detail,
     shortest_route |-> <<>>, eco_route |-> <<>>,
     computed |-> computed, G |-> G, files |-> files]

\* the fields of a RouteResponse hold tuples of two and of three numbers
ValidRoutes(shortest_route, eco_route) ==
    /\ \A i \in 1 .. Len(shortest_route) : Len(shortest_route[i]) = 2
    /\ \A i \in 1 .. Len(eco_route) : Len(eco_route[i]) = 3

\* step 4: return RouteResponse(...); a ValidationError reaches the last
\* except clause
RouteResponse(shortest_route, eco_route, message, computed, G, files) ==
    IF ~ValidRoutes(shortest_route, eco_route)
    THEN HTTPException(500, "An unexpected error occurred", computed, G, files)
    ELSE [op |-> "return", status |-> 200, message |-> message,
          shortest_route |-> shortest_route, eco_route |-> eco_route,
          computed |-> computed, G |-> G, files |-> files]

\* the functions declared async def; eco_route.main is declared def
CoroutineFunctions == {"route_handler"}

\* await f(...): the call of a plain function runs it, and what it returned
\* is the operand of await; a tuple cannot be awaited
Await(function, r) ==
    IF function \in CoroutineFunctions \/ r.outcome = "raise" THEN r
    ELSE RaisedBy("TypeError", r.G, r.files)

\* len(shortest_route) and len(eco_route) in the debug line of step 3
LenRaises(value) == value[1] = None \/ value[2] = None

\* step 3 after the await, a the outcome of the await: the debug line, the
\* two except clauses, then step 4
AfterAwait(a, computed) ==
    IF a.outcome = "raise"
    THEN IF a.exception = "ValueError"
         THEN HTTPException(404, "No valid route found", computed, a.G, a.files)
         ELSE HTTPException(500, "Error computing routes", computed, a.G, a.files)
    ELSE IF LenRaises(a.value)
    THEN HTTPException(500, "Error computing routes", computed, a.G, a.files)
    ELSE RouteResponse(a.value[1], a.value[2], "Routes computed successfully",
                       computed, a.G, a.files)

\* step 3: shortest_route, eco_route = await find_routes(...), r what the
\* call of eco_route.main did
ComputeRoutes(r) == AfterAwait(Await("main", r), Computed(r))

\* route_handler: the response or the HTTPException, what the call of
\* eco_route.main in it did, and the graph and the cache it leaves
route_handler(files, G, req, current_hour, map, answer) ==
    IF geocode(req.start).raised \/ geocode(req.end).raised
    THEN HTTPException(400, "Could not find coordinates for locations", NotCalled, G,
                       files)
    ELSE ComputeRoutes(main(files, G, geocode(req.start).point,
                            geocode(req.end).point, VehicleParams(req.vehicle),
                            current_hour, "", map, answer))

\* the params of the map of Ankara
AnkaraParams == << <<"city", PyStr("Ankara")>>, <<"country", PyStr("Turkey")>> >>

\* download_ankara_data once it has the map m: the elevations are fetched
\* and put on the nodes, and the graph object itself is handed to
\* save_to_cache
SaveAnkaraGraph(m, e) ==
    [obtained |-> TRUE,
     files |-> save_to_cache(e.files, "cache", "city_map", AnkaraParams, PyObject, "ok")]

\* download_ankara_data: whether it had the map, and the cache it leaves
download_ankara_data(files, map, G, answer) ==
    IF ~download_city_map(files, "Ankara", map, G).obtained
    THEN [obtained |-> FALSE, files |-> download_city_map(files, "Ankara", map, G).files]
    ELSE SaveAnkaraGraph(download_city_map(files, "Ankara", map, G),
                         get_elevations(download_city_map(files, "Ankara", map, G).files,
                                        answer))

\* the elevation the provider has for a coordinate
Terrain(coord) == coord[1] - 380

\* what the request of a batch brings: a failure, one result per location,
\* the last location left out, one result too many
ResponseKinds == {"error", "ok", "short", "long"}

Response(kind, batch) ==
    [status |-> IF kind = "error" THEN "error" ELSE "OK",
     results |->
        IF kind = "error" THEN <<>>
        ELSE IF kind = "short"
        THEN [j \in 1 .. Len(batch) - 1 |-> Terrain(batch[j])]
        ELSE IF kind = "long"
        THEN [j \in 1 .. Len(batch) + 1 |->
                 IF j <= Len(batch) THEN Terrain(batch[j]) ELSE 0]
        ELSE [j \in 1 .. Len(batch) |-> Terrain(batch[j])]]

\* batch b of the loop of get_elevations
Batch(coords, batch_size, b) ==
    SubSeq(coords, (b - 1) * batch_size + 1, Min2(b * batch_size, Len(coords)))

NumBatches(coords, batch_size) == (Len(coords) + batch_size - 1) \div batch_size

BatchSizes == {1, 2, 100}

\* the coordinates of the first n nodes
CoordLists == {[i \in 1 .. n |-> NodeCoord(i)] : n \in 0 .. NumNodes}

\* the city map main asks for and the answers of the elevation provider: no
\* data, and a plateau over the first two nodes
Cities == {"", "Ankara"}

ElevationAnswers ==
    {[n \in Nodes |-> 0], [n \in Nodes |-> IF n <= 2 THEN 3 ELSE 0]}

\* a cache directory that already holds the map of the city
CityCached ==
    save_to_cache(<<>>, "cache", "city_map",
                  << <<"city", PyStr("Ankara")>>, <<"country", PyStr("Turkey")>> >>,
                  GraphJson, "ok")

(***************************************************************************)
(* State.                                                                  *)
(*   G .. route_result   one call of find_shortest_and_eco_route           *)
(*   files               the cache files: path -> content                  *)
(*   cache_last          per (dataset, params) handed to save_to_cache,    *)
(*                       the params and the value of the last such call    *)
(*                       and how its writing went                          *)
(*   cache_good          per (dataset, params), the last value a call      *)
(*                       wrote completely                                  *)
(*   cache_get           the last call on the cache and how it ended; of a *)
(*                       get_cached_data call also what it returned        *)
(*   disk                the cache file the overlapping calls write        *)
(*   writer              per overlapping save_to_cache call its value,     *)
(*                       where it is, and its position in the file         *)
(*   last_writer         the call that wrote to the file last              *)
(*   reader              the get_cached_data call after them               *)
(*   edge_data           the edge calculate_fuel_consumption is called on  *)
(*   fuel_first          what the first call on it returned                *)
(*   fuel_last           the last call on it, until time passes            *)
VARIABLES disk, writer, last_writer, reader

(*   coords, batch_size  the arguments of get_elevations                   *)
(*   elev_call           the last call of get_elevations: what its batch   *)
(*                       requests brought and what it returned             *)
VARIABLES edge_data, fuel_first, fuel_last

(*   node_elevation      the elevation attribute of the nodes that have it *)
(*   slope_call          the last call of calculate_slope on G             *)
VARIABLES coords, batch_size, elev_call

(*   ankara              the run of download_ankara_data and the           *)
(*                       download_city_map('Ankara') after it              *)
(***************************************************************************)
VARIABLES node_elevation, slope_call

VARIABLES ankara

(*   request             the body of a POST /route request that passed the  *)
(*                       validation of its fields                           *)
(*   response            what route_handler answered, and what the call of  *)
(*                       eco_route.main in it did                           *)
VARIABLES request, response

VARIABLES G, start_node, end_node, vehicle_params, current_hour,
          route_pc, route_result,
          files, cache_last, cache_good, cache_get,
          city_name, provider, elevation_api, main_pc, main_result

route_vars == <<G, start_node, end_node, vehicle_params, current_hour,
                route_pc, route_result>>

cache_vars == <<files, cache_last, cache_good, cache_get>>

main_vars == <<city_name, provider, elevation_api, main_pc, main_result>>

writer_vars == <<disk, writer, last_writer, reader>>

fuel_vars == <<edge_data, fuel_first, fuel_last>>

elev_vars == <<coords, batch_size, elev_call>>

slope_vars == <<node_elevation, slope_call>>

handler_vars == <<request, response>>

ext_vars == <<writer_vars, fuel_vars, elev_vars, slope_vars, ankara, handler_vars>>

vars == <<route_vars, cache_vars, main_vars, ext_vars>>

\* the engine before any call, on an empty graph
RouteIdle ==
    /\ G = <<>>
    /\ start_node = 1
    /\ end_node = 1
    /\ vehicle_params = DefaultProfile
    /\ current_hour = 12
    /\ route_pc = "idle"
    /\ route_result = None

\* eco_route.main before any call
MainIdle ==
    /\ city_name = ""
    /\ provider = "ok"
    /\ elevation_api = [n \in Nodes |-> 0]
    /\ main_pc = "idle"
    /\ main_result = None

\* no overlapping calls
WritersIdle ==
    /\ disk = [exists |-> FALSE, text |-> <<>>]
    /\ writer = [w \in Writers |-> [pc |-> "closed", value |-> PyNone, pos |-> 0]]
    /\ last_writer = 0
    /\ reader = NoOp

\* no call of calculate_fuel_consumption on its own
FuelIdle ==
    /\ edge_data = <<>>
    /\ fuel_first = NoOp
    /\ fuel_last = NoOp

\* no call of get_elevations on its own
ElevIdle ==
    /\ coords = <<>>
    /\ batch_size = 100
    /\ elev_call = NoOp

\* no call of calculate_slope on its own
SlopeIdle ==
    /\ node_elevation = <<>>
    /\ slope_call = NoOp

\* no run of download_ankara_data
AnkaraIdle == ankara = NoOp

\* no request
HandlerIdle ==
    /\ request = NoOp
    /\ response = NoOp

ExtIdle ==
    WritersIdle /\ FuelIdle /\ ElevIdle /\ SlopeIdle /\ AnkaraIdle /\ HandlerIdle

\* an empty cache directory
CacheEmpty ==
    /\ files = <<>>
    /\ cache_last = <<>>
    /\ cache_good = <<>>
    /\ cache_get = NoOp

(***************************************************************************)
(* The routing engine as a state machine: one call of                      *)
(* find_shortest_and_eco_route on a graph the caller owns.                 *)
(***************************************************************************)

\* Node identifiers are opaque and Graphs(n) is closed under renaming them,
\* so the origin is node 1 and the destination is node 1 or the last node.
RouteInputs(n) ==
    /\ G \in Graphs(n)
    /\ start_node = 1
    /\ end_node \in {1, NumNodes}
    /\ vehicle_params \in RouteProfiles
    /\ current_hour \in RouteHours
    /\ route_pc = "call"
    /\ route_result = None
    /\ CacheEmpty
    /\ MainIdle
    /\ ExtIdle

FindShortestAndEcoRoute ==
    /\ route_pc = "call"
    /\ \E r \in {find_shortest_and_eco_route(G, start_node, end_node,
                                                vehicle_params, current_hour)} :
           /\ G' = r.G
           /\ route_result' = [r EXCEPT !.G = None]
    /\ route_pc' = "done"
    /\ UNCHANGED <<start_node, end_node, vehicle_params, current_hour>>
    /\ UNCHANGED <<cache_vars, main_vars, ext_vars>>

Init == RouteInputs(MaxEdges)

Next == FindShortestAndEcoRoute

Spec == Init /\ [][Next]_vars

\* the same engine on the graphs with two more edges, the smallest on which a
\* search can pass over a cheaper path
DenseInit == RouteInputs(MaxEdges + 2)

SpecDense == DenseInit /\ [][Next]_vars

(***************************************************************************)
(* The cache as a state machine: any sequence of save_to_cache and         *)
(* get_cached_data calls on the managers.                                  *)
(***************************************************************************)
CacheInit == RouteIdle /\ CacheEmpty /\ MainIdle /\ ExtIdle

\* f with f[k] = x
Put(f, k, x) == [j \in DOMAIN f \cup {k} |-> IF j = k THEN x ELSE f[j]]

SaveToCache(m, data_type, data, result, io) ==
    /\ IF DumpsRaises(data)
       THEN UNCHANGED <<files, cache_last, cache_good>>
       ELSE /\ files' = save_to_cache(files, cache_dir[m], data_type, data, result, io)
            /\ cache_last' = Put(cache_last, CacheKey(data_type, data),
                                 [data |-> data, value |-> result, io |-> io])
            /\ cache_good' = IF SaveWrites(result, io)
                             THEN Put(cache_good, CacheKey(data_type, data), result)
                             ELSE cache_good
    /\ cache_get' = [op |-> "save", outcome |-> CallOutcome(data)]
    /\ UNCHANGED <<route_vars, main_vars, ext_vars>>

GetCachedData(m, data_type, data, io) ==
    /\ cache_get' = [op |-> "get", manager |-> m, data_type |-> data_type,
                     data |-> data, io |-> io,
                     outcome |-> CallOutcome(data),
                     returned |-> IF DumpsRaises(data) THEN PyNone
                                  ELSE get_cached_data(files, cache_dir[m],
                                                       data_type, data, io)]
    /\ UNCHANGED <<files, cache_last, cache_good>>
    /\ UNCHANGED <<route_vars, main_vars, ext_vars>>

CacheNext ==
    \/ \E m \in Managers, call \in CacheCalls, result \in CacheValues,
          io \in {"ok", "open_error", "write_error"} :
          SaveToCache(m, call[1], call[2], result, io)
    \/ \E m \in Managers, call \in CacheCalls, io \in {"ok", "read_error"} :
          GetCachedData(m, call[1], call[2], io)

SpecCache == CacheInit /\ [][CacheNext]_vars

(***************************************************************************)
(* Two save_to_cache calls for one key that overlap, with different        *)
(* values, and a get_cached_data call once both are over.                  *)
(***************************************************************************)
WritersInit ==
    /\ RouteIdle /\ CacheEmpty /\ MainIdle /\ FuelIdle /\ ElevIdle /\ SlopeIdle
    /\ AnkaraIdle /\ HandlerIdle
    /\ disk = [exists |-> FALSE, text |-> <<>>]
    /\ writer \in {wr \in [Writers -> {[pc |-> "call", value |-> v, pos |-> 0] :
                                          v \in WriterValues}] :
                       wr[1].value # wr[2].value}
    /\ last_writer = 0
    /\ reader = NoOp

\* with open(cache_file, 'w') as f
Open(w) ==
    /\ writer[w].pc = "call"
    /\ disk' = [exists |-> TRUE, text |-> <<>>]
    /\ writer' = [writer EXCEPT ![w].pc = "open"]
    /\ UNCHANGED <<last_writer, reader>>
    /\ UNCHANGED <<route_vars, cache_vars, main_vars, fuel_vars, elev_vars, slope_vars,
                   ankara, handler_vars>>

\* json.dump(result, f): a full buffer, or at the end the rest, is written
Flush(w) ==
    /\ writer[w].pc = "open"
    /\ writer[w].pos < Len(Text(Dumps(writer[w].value)))
    /\ disk' = [disk EXCEPT !.text =
                    WriteAt(disk.text, writer[w].pos,
                            NextBuffer(Text(Dumps(writer[w].value)), writer[w].pos))]
    /\ writer' = [writer EXCEPT ![w].pos =
                      Min2(writer[w].pos + BufferSize,
                           Len(Text(Dumps(writer[w].value))))]
    /\ last_writer' = w
    /\ UNCHANGED reader
    /\ UNCHANGED <<route_vars, cache_vars, main_vars, fuel_vars, elev_vars, slope_vars,
                   ankara, handler_vars>>

\* the end of the with block
Close(w) ==
    /\ writer[w].pc = "open"
    /\ writer[w].pos = Len(Text(Dumps(writer[w].value)))
    /\ writer' = [writer EXCEPT ![w].pc = "closed"]
    /\ UNCHANGED <<disk, last_writer, reader>>
    /\ UNCHANGED <<route_vars, cache_vars, main_vars, fuel_vars, elev_vars, slope_vars,
                   ankara, handler_vars>>

\* get_cached_data for the same key after both calls
LaterGet ==
    /\ \A w \in Writers : writer[w].pc = "closed"
    /\ reader = NoOp
    /\ reader' = [op |-> "get",
                  returned |-> get_cached_data(FilesOf(disk), "cache", "city_map",
                                               WriterParams, "ok")]
    /\ UNCHANGED <<disk, writer, last_writer>>
    /\ UNCHANGED <<route_vars, cache_vars, main_vars, fuel_vars, elev_vars, slope_vars,
                   ankara, handler_vars>>

WritersNext ==
    \/ \E w \in Writers : Open(w)
    \/ \E w \in Writers : Flush(w)
    \/ \E w \in Writers : Close(w)
    \/ LaterGet

SpecWriters == WritersInit /\ [][WritersNext]_vars

(***************************************************************************)
(* The cost model as a state machine: calculate_fuel_consumption is        *)
(* called on an edge and a profile, time passes, it is called again.       *)
(***************************************************************************)
FuelInit ==
    /\ G = <<>>
    /\ start_node = 1
    /\ end_node = 1
    /\ vehicle_params \in FuelProfiles
    /\ current_hour \in Hours
    /\ route_pc = "idle"
    /\ route_result = None
    /\ CacheEmpty /\ MainIdle /\ WritersIdle /\ ElevIdle /\ SlopeIdle /\ AnkaraIdle
    /\ HandlerIdle
    /\ edge_data \in FuelEdges
    /\ fuel_first = NoOp
    /\ fuel_last = NoOp

\* the first call, and another one once time has passed
CalculateFuelConsumption ==
    /\ fuel_first # NoOp => fuel_last = NoOp
    /\ fuel_last' = FuelCall(edge_data, vehicle_params, current_hour)
    /\ fuel_first' = IF fuel_first = NoOp
                     THEN [op |-> "call", fuel |-> fuel_last'.fuel]
                     ELSE fuel_first
    /\ UNCHANGED edge_data
    /\ UNCHANGED <<G, start_node, end_node, vehicle_params, current_hour,
                   route_pc, route_result>>
    /\ UNCHANGED <<cache_vars, main_vars, writer_vars, elev_vars, slope_vars, ankara,
                   handler_vars>>

\* after a call the clock reaches another hour
Tick ==
    /\ fuel_last # NoOp
    /\ \E hour \in Hours : current_hour' = hour
    /\ fuel_last' = NoOp
    /\ UNCHANGED <<edge_data, fuel_first>>
    /\ UNCHANGED <<G, start_node, end_node, vehicle_params, route_pc, route_result>>
    /\ UNCHANGED <<cache_vars, main_vars, writer_vars, elev_vars, slope_vars, ankara,
                   handler_vars>>

FuelNext == CalculateFuelConsumption \/ Tick

SpecFuel == FuelInit /\ [][FuelNext]_vars

(***************************************************************************)
(* get_elevations as a state machine: calls with the same arguments, the   *)
(* first on an empty cache.                                                *)
(***************************************************************************)
ElevInit ==
    /\ RouteIdle /\ CacheEmpty /\ MainIdle /\ WritersIdle /\ FuelIdle /\ SlopeIdle
    /\ AnkaraIdle /\ HandlerIdle
    /\ coords \in CoordLists
    /\ batch_size \in BatchSizes
    /\ elev_call = NoOp

GetElevationsCall ==
    \E kinds \in [1 .. NumBatches(coords, batch_size) -> ResponseKinds] :
        \E responses \in {[b \in 1 .. NumBatches(coords, batch_size) |->
                               Response(kinds[b], Batch(coords, batch_size, b))]} :
            \E r \in {GetElevations(files, coords, batch_size, responses,
                                     ElevationParams(coords, batch_size))} :
                /\ files' = r.files
                /\ elev_call' = [op |-> "call", hit |-> r.hit,
                                 responses |-> IF r.hit THEN <<>> ELSE responses,
                                 returned |-> r.elevations]
                /\ UNCHANGED <<coords, batch_size>>
                /\ UNCHANGED <<cache_last, cache_good, cache_get>>
                /\ UNCHANGED <<route_vars, main_vars, writer_vars, fuel_vars, slope_vars,
                               ankara, handler_vars>>

SpecElevations == ElevInit /\ [][GetElevationsCall]_vars

(***************************************************************************)
(* calculate_slope as a state machine: one call on a graph some of whose   *)
(* nodes carry an elevation.                                               *)
(***************************************************************************)
SlopeInit ==
    /\ G \in SlopeGraphs
    /\ start_node = 1
    /\ end_node = 1
    /\ vehicle_params = DefaultProfile
    /\ current_hour = 12
    /\ route_pc = "idle"
    /\ route_result = None
    /\ CacheEmpty /\ MainIdle /\ WritersIdle /\ FuelIdle /\ ElevIdle /\ AnkaraIdle
    /\ HandlerIdle
    /\ node_elevation \in NodeElevations
    /\ slope_call = NoOp

CalculateSlope ==
    /\ slope_call = NoOp
    /\ IF SlopeRaises(G, node_elevation)
       THEN /\ G' = G
            /\ slope_call' = [op |-> "call", outcome |-> "raise"]
       ELSE /\ G' = calculate_slope(G, node_elevation)
            /\ slope_call' = [op |-> "call", outcome |-> "return"]
    /\ UNCHANGED node_elevation
    /\ UNCHANGED <<start_node, end_node, vehicle_params, current_hour,
                   route_pc, route_result>>
    /\ UNCHANGED <<cache_vars, main_vars, writer_vars, fuel_vars, elev_vars, ankara,
                   handler_vars>>

SpecSlope == SlopeInit /\ [][CalculateSlope]_vars

(***************************************************************************)
(* download_ankara.py as a state machine: one run of download_ankara_data, *)
(* then a call of download_city_map('Ankara').                             *)
(***************************************************************************)
AnkaraInit ==
    /\ G \in Graphs(1)
    /\ start_node = 1
    /\ end_node = 1
    /\ vehicle_params = DefaultProfile
    /\ current_hour = 12
    /\ route_pc = "idle"
    /\ route_result = None
    /\ files \in {<<>>, CityCached}
    /\ cache_last = <<>>
    /\ cache_good = <<>>
    /\ cache_get = NoOp
    /\ city_name = "Ankara"
    /\ provider \in {"ok", "error"}
    /\ elevation_api \in ElevationAnswers
    /\ main_pc = "idle"
    /\ main_result = None
    /\ WritersIdle /\ FuelIdle /\ ElevIdle /\ SlopeIdle /\ HandlerIdle
    /\ ankara = NoOp

DownloadAnkaraData ==
    /\ ankara = NoOp
    /\ \E r \in {download_ankara_data(files, provider, G, elevation_api)} :
           /\ files' = r.files
           /\ ankara' = [op |-> "download_ankara_data", obtained |-> r.obtained]
    /\ UNCHANGED <<route_vars, cache_last, cache_good, cache_get, main_vars>>
    /\ UNCHANGED <<writer_vars, fuel_vars, elev_vars, slope_vars, handler_vars>>

\* the call after the run; hit says the graph came from the cache, without a
\* call of the map provider
DownloadCityMap ==
    /\ ankara.op = "download_ankara_data"
    /\ \E r \in {download_city_map(files, "Ankara", provider, G)} :
           /\ files' = r.files
           /\ ankara' = [op |-> "download_city_map", obtained |-> ankara.obtained,
                         hit |-> get_cached_data(files, "cache", "city_map",
                                                 AnkaraParams, "ok") # PyNone]
    /\ UNCHANGED <<route_vars, cache_last, cache_good, cache_get, main_vars>>
    /\ UNCHANGED <<writer_vars, fuel_vars, elev_vars, slope_vars, handler_vars>>

AnkaraNext == DownloadAnkaraData \/ DownloadCityMap

SpecAnkara == AnkaraInit /\ [][AnkaraNext]_vars

(***************************************************************************)
(* eco_route.main as a state machine: one call.                            *)
(***************************************************************************)
MainInputs(n) ==
    /\ G \in Graphs(n)
    /\ start_node = 1
    /\ end_node \in {1, NumNodes}
    /\ vehicle_params \in RouteProfiles
    /\ current_hour \in RouteHours
    /\ route_pc = "idle"
    /\ route_result = None
    /\ files \in {<<>>, CityCached}
    /\ cache_last = <<>>
    /\ cache_good = <<>>
    /\ cache_get = NoOp
    /\ city_name \in Cities
    /\ provider \in {"ok", "error"}
    /\ elevation_api \in ElevationAnswers
    /\ main_pc = "call"
    /\ main_result = None
    /\ ExtIdle

Main ==
    /\ main_pc = "call"
    /\ \E r \in {main(files, G, NodeCoord(start_node), NodeCoord(end_node),
                      vehicle_params, current_hour, city_name, provider,
                      elevation_api)} :
           /\ G' = r.G
           /\ files' = r.files
           /\ main_result' = [outcome |-> r.outcome, value |-> r.value]
    /\ main_pc' = "done"
    /\ UNCHANGED <<start_node, end_node, vehicle_params, current_hour,
                   route_pc, route_result>>
    /\ UNCHANGED <<cache_last, cache_good, cache_get>>
    /\ UNCHANGED <<city_name, provider, elevation_api>>
    /\ UNCHANGED ext_vars

MainInit == MainInputs(MaxEdges)

SpecMain == MainInit /\ [][Main]_vars

(***************************************************************************)
(* The /route endpoint as a state machine: one request on an empty cache.  *)
(***************************************************************************)
Requests ==
    {[start |-> s, end |-> e, vehicle |-> v] :
        s \in {"Kizilay", "Atlantis"}, e \in Places, v \in VehicleRequests}

\* the map provider answers with the map, fails, or has a map without nodes
HandlerInit ==
    /\ G \in Graphs(MaxEdges)
    /\ start_node = 1
    /\ end_node = 1
    /\ vehicle_params = DefaultProfile
    /\ current_hour \in RouteHours
    /\ route_pc = "idle"
    /\ route_result = None
    /\ CacheEmpty
    /\ city_name = ""
    /\ provider \in {"ok", "error", "empty"}
    /\ elevation_api \in ElevationAnswers
    /\ main_pc = "idle"
    /\ main_result = None
    /\ WritersIdle /\ FuelIdle /\ ElevIdle /\ SlopeIdle /\ AnkaraIdle
    /\ request \in Requests
    /\ response = NoOp

RouteHandler ==
    /\ response = NoOp
    /\ \E h \in {route_handler(files, G, request, current_hour, provider,
                               elevation_api)} :
           /\ G' = h.G
           /\ files' = h.files
           /\ response' = [op |-> h.op, status |-> h.status, message |-> h.message,
                           shortest_route |-> h.shortest_route,
                           eco_route |-> h.eco_route, computed |-> h.computed]
    /\ UNCHANGED request
    /\ UNCHANGED <<start_node, end_node, vehicle_params, current_hour,
                   route_pc, route_result>>
    /\ UNCHANGED <<cache_last, cache_good, cache_get, main_vars>>
    /\ UNCHANGED <<writer_vars, fuel_vars, elev_vars, slope_vars, ankara>>

SpecHandler == HandlerInit /\ [][RouteHandler]_vars

(***************************************************************************)
(* Reference notions the routing properties are stated against; none of    *)
(* them is used by the model of the code.                                  *)
(***************************************************************************)
Infinity == 1000000000

\* least value of attr among the parallel edges from u to v
HopMin(g, attr, u, v) ==
    SetMin({g[<<u, v, k>>][attr] : k \in {x \in EdgeKeys : <<u, v, x>> \in DOMAIN g}})

\* one round of Bellman-Ford relaxation
BFStep(g, attr, dist) ==
    [v \in Nodes |->
        SetMin({dist[v]} \cup
               {dist[u] + HopMin(g, attr, u, v) :
                    u \in {x \in Nodes : HasEdge(g, x, v) /\ dist[x] < Infinity}})]

RECURSIVE BFRounds(_, _, _, _)
BFRounds(g, attr, dist, n) ==
    IF n = 0 THEN dist ELSE BFRounds(g, attr, BFStep(g, attr, dist), n - 1)

HasNegativeCycle(g, attr) ==
    LET d == BFRounds(g, attr, [v \in Nodes |-> 0], NumNodes)
    IN  BFStep(g, attr, d) # d

\* least total of attr over all paths from s to t; Infinity when there is none
MinPathCost(g, attr, s, t) ==
    BFRounds(g, attr, [v \in Nodes |-> IF v = s THEN 0 ELSE Infinity], NumNodes - 1)[t]

Reachable(g, s, t) == MinPathCost(g, "length", s, t) < Infinity

\* total of attr along a node path, each hop taken over its least edge
PathCost(g, attr, path) ==
    SumSeq([i \in 1 .. Len(path) - 1 |-> HopMin(g, attr, path[i], path[i + 1])])

\* the edge a search by weight takes from u to v: the least one, lowest key first
HopEdge(g, weight, u, v) ==
    LET i == CHOOSE n \in 1 .. MaxParallel :
                /\ <<u, v, KeyNames[n]>> \in DOMAIN g
                /\ g[<<u, v, KeyNames[n]>>][weight] = HopMin(g, weight, u, v)
                /\ \A m \in 1 .. n - 1 :
                      <<u, v, KeyNames[m]>> \in DOMAIN g
                          => g[<<u, v, KeyNames[m]>>][weight] # HopMin(g, weight, u, v)
    IN  <<u, v, KeyNames[i]>>

\* total of attr along a node path found by a search by weight
PathTotal(g, weight, attr, path) ==
    SumSeq([i \in 1 .. Len(path) - 1 |->
                g[HopEdge(g, weight, path[i], path[i + 1])][attr]])

\* the graph without the parallel edges that are not minimal for attr
Prune(g, attr) ==
    [e \in {x \in DOMAIN g : g[x][attr] = HopMin(g, attr, x[1], x[2])} |-> g[e]]

Returned == route_pc = "done" /\ route_result.outcome = "return"

ReturnedPaths == Returned /\ route_result.shortest_path # None

(***************************************************************************)
(* Properties of the routing engine.                                       *)
(***************************************************************************)
\* C1: on a graph with no cycle of negative total fuel, the eco path that
\* find_shortest_and_eco_route returns has the least total fuel weight of
\* all paths from the origin to the destination.
C1_EcoPathIsOptimal ==
    (ReturnedPaths /\ ~HasNegativeCycle(G, "eco_weight"))
        => PathCost(G, "eco_weight", route_result.eco_path)
               = MinPathCost(G, "eco_weight", start_node, end_node)

\* C2: for each of the two returned paths the aggregate distance is the sum
\* of the edge lengths along the path and the aggregate fuel is the sum of
\* the edge fuel weights along the path.
C2_AggregatesAreSums ==
    ReturnedPaths =>
        /\ route_result.shortest_distance
               = PathTotal(G, "shortest_weight", "length", route_result.shortest_path)
        /\ route_result.shortest_fuel
               = PathTotal(G, "shortest_weight", "eco_weight", route_result.shortest_path)
        /\ route_result.eco_distance
               = PathTotal(G, "eco_weight", "length", route_result.eco_path)
        /\ route_result.eco_fuel
               = PathTotal(G, "eco_weight", "eco_weight", route_result.eco_path)

\* C3: when two paths are returned, the total fuel of the eco path is at
\* most the total fuel of the shortest path.
C3_EcoFuelAtMostShortestFuel ==
    ReturnedPaths =>
        PathTotal(G, "eco_weight", "eco_weight", route_result.eco_path)
            <= PathTotal(G, "shortest_weight", "eco_weight", route_result.shortest_path)

\* C4: each search of the call gives the same outcome, path and cost on the
\* graph as on the graph from which every parallel edge that is not minimal
\* for the search's own weight has been removed, and the call returns the
\* paths of its searches.
SearchAgrees(weight) ==
    bidirectional_dijkstra(G, start_node, end_node, weight)
        = bidirectional_dijkstra(Prune(G, weight), start_node, end_node, weight)

SearchFound(weight) ==
    bidirectional_dijkstra(G, start_node, end_node, weight).outcome = "path"

C4_ParallelEdgesAsMinimum ==
    route_pc = "done" =>
        /\ SearchAgrees("shortest_weight")
        /\ SearchFound("shortest_weight") => SearchAgrees("eco_weight")
        /\ ReturnedPaths =>
              /\ route_result.shortest_path
                    = bidirectional_dijkstra(Prune(G, "shortest_weight"), start_node,
                                             end_node, "shortest_weight").path
              /\ route_result.eco_path
                    = bidirectional_dijkstra(Prune(G, "eco_weight"), start_node,
                                             end_node, "eco_weight").path

\* a hop of the returned eco path has parallel edges of different fuel weight
C4_Witness ==
    /\ ReturnedPaths
    /\ \E i \in 1 .. Len(route_result.eco_path) - 1 :
          \E k1, k2 \in EdgeKeys :
             LET u == route_result.eco_path[i]
                 v == route_result.eco_path[i + 1]
             IN  /\ <<u, v, k1>> \in DOMAIN G
                 /\ <<u, v, k2>> \in DOMAIN G
                 /\ G[<<u, v, k1>>]["eco_weight"] < G[<<u, v, k2>>]["eco_weight"]
                 /\ k2 = "0"

\* C5: for origin and destination in the graph the call ends by returning
\* two paths or (None, None), never by raising.
C5_NeverRaises == route_pc = "done" => route_result.outcome = "return"

\* C6: with origin equal to destination both searches return the path made
\* of that one node, with total distance 0 and total fuel 0.
C6_SameNodeTrivialPath ==
    (route_pc = "done" /\ start_node = end_node) =>
        /\ route_result.outcome = "return"
        /\ route_result.shortest_path = <<start_node>>
        /\ route_result.eco_path = <<start_node>>
        /\ route_result.shortest_distance = 0
        /\ route_result.eco_distance = 0
        /\ route_result.shortest_fuel = 0
        /\ route_result.eco_fuel = 0

\* the call was made with origin = destination on a graph that has edges
C6_Witness ==
    /\ route_pc = "done"
    /\ start_node = end_node
    /\ \E e \in DOMAIN G : e[1] = start_node

\* C7: without a directed path from origin to destination the call returns
\* (None, None).
C7_NoPathReturnsNoneNone ==
    (route_pc = "done" /\ ~Reachable(G, start_node, end_node)) =>
        /\ route_result.outcome = "return"
        /\ route_result.shortest_path = None
        /\ route_result.eco_path = None

\* the destination is unreachable although the origin has outgoing edges and
\* the destination has incoming ones
C7_Witness ==
    /\ route_pc = "done"
    /\ ~Reachable(G, start_node, end_node)
    /\ \E e \in DOMAIN G : e[1] = start_node
    /\ \E e \in DOMAIN G : e[2] = end_node

(***************************************************************************)
(* Claims about the cache.                                                 *)
(***************************************************************************)
\* the value, with every tuple in it a list
RECURSIVE TuplesAsLists(_)
TuplesAsLists(value) ==
    IF value.type \in {"list", "tuple"}
    THEN PyList([i \in 1 .. Len(value.items) |-> TuplesAsLists(value.items[i])])
    ELSE value

\* the (dataset, params) pair of the last lookup
GetKey == CacheKey(cache_get.data_type, cache_get.data)

\* C9: after save_to_cache(dataset, params, value) has returned, with no
\* failure of the file system, a get_cached_data(dataset, params) on any
\* CacheManager of the same directory whose read does not fail returns a
\* value equal to value; for a pair never stored it returns None.
C9_RoundTrip ==
    (cache_get.op = "get" /\ cache_get.io = "ok") =>
        IF GetKey \in DOMAIN cache_last
        THEN cache_last[GetKey].io = "ok" =>
                 cache_get.returned = cache_last[GetKey].value
        ELSE cache_get.returned = PyNone

\* C10: when the last save_to_cache under a (dataset, params) pair failed and
\* an earlier one had stored a value, a get_cached_data whose read does not
\* fail still returns the value stored earlier.
C10_FailedSaveKeepsValue ==
    (/\ cache_get.op = "get" /\ cache_get.io = "ok"
     /\ GetKey \in DOMAIN cache_good
     /\ ~SaveWrites(cache_last[GetKey].value, cache_last[GetKey].io)) =>
        cache_get.returned = TuplesAsLists(cache_good[GetKey])

\* C13: the cache key does not depend on the order in which the fields of
\* params were inserted: params with the same field/value pairs as those of a
\* lookup have the same key and the same cache file, so the lookup under
\* them returns the same.
C13_KeyIgnoresInsertionOrder ==
    (cache_get.op = "get" /\ cache_get.outcome = "return") =>
        \A call \in CacheCalls :
            CacheKey(call[1], call[2]) = GetKey =>
                /\ get_cache_key(call[2]) = get_cache_key(cache_get.data)
                /\ CacheFile(cache_dir[cache_get.manager], call[1], call[2])
                       = CacheFile(cache_dir[cache_get.manager], cache_get.data_type,
                                   cache_get.data)
                /\ get_cached_data(files, cache_dir[cache_get.manager], call[1],
                                   call[2], cache_get.io) = cache_get.returned

\* a lookup found the value stored under the same params in another order
C13_Witness ==
    /\ cache_get.op = "get"
    /\ cache_get.returned # PyNone
    /\ GetKey \in DOMAIN cache_last
    /\ cache_last[GetKey].data # cache_get.data

\* C11: no call of get_cached_data or of save_to_cache raises to its caller,
\* whatever the dataset name and the params; a get_cached_data whose read
\* fails or whose file holds no JSON document returns None.
C11_CacheNeverRaises ==
    /\ cache_get.op \in {"get", "save"} => cache_get.outcome = "return"
    /\ (/\ cache_get.op = "get"
        /\ \/ cache_get.io = "read_error"
           \/ /\ CacheFile(cache_dir[cache_get.manager], cache_get.data_type,
                            cache_get.data) \in DOMAIN files
              /\ files[CacheFile(cache_dir[cache_get.manager], cache_get.data_type,
                                 cache_get.data)] = Corrupt)
            => cache_get.returned = PyNone

\* C12: when two save_to_cache calls for the same dataset and params overlap
\* with different values and both complete, a later get_cached_data returns
\* the value of the call that wrote last: not a miss, not another value.
C12_LastWriteWins ==
    reader.op = "get" => reader.returned = writer[last_writer].value

(***************************************************************************)
(* Claims about the cost model.                                            *)
(***************************************************************************)
\* C14: two calls of calculate_fuel_consumption with the same edge data and
\* the same profile return the same fuel value, whenever they are made.
C14_FuelIsPure ==
    (fuel_first # NoOp /\ fuel_last # NoOp) => fuel_last.fuel = fuel_first.fuel

\* the road class calculate_fuel_consumption reads from the edge
RoadTypeOf(edge) == DictGet(edge, "highway", "primary")

\* C16: an edge whose road class is missing or is none of the enumerated
\* classes is costed as the same edge with road class "primary": the same
\* effective speed, rolling resistance and weather impact, and the same fuel.
C16_UnknownClassAsPrimary ==
    (fuel_last # NoOp /\ DictGet(edge_data, "highway", "") \notin RoadClasses) =>
        /\ fuel_last = FuelCall(SetItem(edge_data, "highway", "primary"),
                                vehicle_params, fuel_last.hour)
        /\ calculate_rolling_resistance(vehicle_params, RoadTypeOf(edge_data))
               = calculate_rolling_resistance(vehicle_params, "primary")
        /\ calculate_weather_impact(vehicle_params["weather_conditions"],
                                    RoadTypeOf(edge_data))
               = calculate_weather_impact(vehicle_params["weather_conditions"], "primary")

\* the constant k of the efficiency curve of a profile's engine category
CurveK(profile) ==
    LET fuel_type == DictGet(profile, "fuel_type", "none")
    IN  IF fuel_type = "electric" THEN 3 ELSE IF fuel_type = "hybrid" THEN 4 ELSE 5

\* C17: the engine efficiency of a call is on the curve
\* maxEfficiency * exp(-k * (speed - optimalSpeed)^2) of the profile's own
\* optimal speed and peak efficiency, and a profile that differs in either
\* has another efficiency at the same speed.
C17_EfficiencyFollowsProfile ==
    fuel_last # NoOp =>
        /\ fuel_last.engine_efficiency
               = EfficiencyCurve(fuel_last.effective_speed,
                                 vehicle_params["optimal_speed"],
                                 vehicle_params["max_efficiency"],
                                 CurveK(vehicle_params))
        /\ \A other \in FuelProfiles :
               (\/ other["optimal_speed"] # vehicle_params["optimal_speed"]
                \/ other["max_efficiency"] # vehicle_params["max_efficiency"]) =>
                   calculate_vehicle_efficiency(fuel_last.effective_speed, other)
                       # fuel_last.engine_efficiency

\* C18: the effective speed of a call is greater than 0 and at most the
\* edge's posted speed limit.
C18_EffectiveSpeedWithinLimit ==
    fuel_last # NoOp =>
        /\ fuel_last.effective_speed > 0
        /\ fuel_last.effective_speed <= DictGet(edge_data, "speed_kph", 50) * 1000

\* the speed limit capped the traffic-flow speed of a call
C18_Witness ==
    /\ fuel_last # NoOp
    /\ "speed_kph" \in DOMAIN edge_data
    /\ fuel_last.effective_speed = edge_data["speed_kph"] * 1000

(***************************************************************************)
(* Claims about calculate_slope.                                           *)
(***************************************************************************)
\* the elevation of a node, 0 when it has none
ElevationAt(n) == IF n \in DOMAIN node_elevation THEN node_elevation[n] ELSE 0

\* C19: calculate_slope returns, never dividing by zero, and afterwards every
\* edge (u, v, k) has the slope (elevation(v) - elevation(u)) / length when
\* its length is greater than 0, up to the rounding of the thousandths, and
\* the slope 0 when its length is 0.
C19_SlopeOfEveryEdge ==
    slope_call # NoOp =>
        /\ slope_call.outcome = "return"
        /\ \A e \in DOMAIN G :
               /\ "slope" \in DOMAIN G[e]
               /\ "length" \in DOMAIN G[e] =>
                      IF G[e]["length"] > 0
                      THEN /\ Abs(G[e]["slope"] * G[e]["length"]
                                  - (ElevationAt(e[2]) - ElevationAt(e[1])) * 1000)
                                  < G[e]["length"]
                           /\ G[e]["slope"] * (ElevationAt(e[2]) - ElevationAt(e[1])) >= 0
                      ELSE G[e]["length"] = 0 => G[e]["slope"] = 0

\* the call met an edge of length 0 and an edge that climbs from a node
\* without an elevation
C19_Witness ==
    /\ slope_call # NoOp
    /\ \E e \in DOMAIN G : "length" \in DOMAIN G[e] /\ G[e]["length"] = 0
    /\ \E e \in DOMAIN G :
          /\ "length" \in DOMAIN G[e] /\ G[e]["length"] > 0
          /\ e[1] \notin DOMAIN node_elevation
          /\ "slope" \in DOMAIN G[e] /\ G[e]["slope"] > 0

(***************************************************************************)
(* Claims about get_elevations.                                            *)
(***************************************************************************)
\* the batch coordinate i falls in, and its place in that batch
BatchOf(i) == ((i - 1) \div batch_size) + 1

PlaceOf(i) == ((i - 1) % batch_size) + 1

\* C15: get_elevations returns one elevation per coordinate, in the order of
\* the coordinates: 0 for each coordinate of a batch whose request failed and
\* the elevation the provider gave for the coordinate in a batch whose
\* request succeeded.
C15_OneElevationPerCoordinate ==
    elev_call # NoOp =>
        /\ Len(elev_call.returned) = Len(coords)
        /\ ~elev_call.hit =>
               \A i \in 1 .. Len(coords) :
                   IF elev_call.responses[BatchOf(i)].status # "OK"
                   THEN elev_call.returned[i] = 0
                   ELSE PlaceOf(i) <= Len(elev_call.responses[BatchOf(i)].results) =>
                            elev_call.returned[i]
                                = elev_call.responses[BatchOf(i)].results[PlaceOf(i)]

(***************************************************************************)
(* Claims about download_ankara_data.                                      *)
(***************************************************************************)
\* C20: once download_ankara_data has completed with the map of Ankara, a
\* lookup of ('city_map', {city: 'Ankara', country: 'Turkey'}) is a hit, and
\* the download_city_map('Ankara') that follows takes the graph from the
\* cache without calling the map provider.
C20_AnkaraMapCached ==
    /\ (ankara.op = "download_ankara_data" /\ ankara.obtained) =>
           get_cached_data(files, "cache", "city_map", AnkaraParams, "ok") # PyNone
    /\ (ankara.op = "download_city_map" /\ ankara.obtained) => ankara.hit

(***************************************************************************)
(* Claims about eco_route.main.                                            *)
(***************************************************************************)
\* what a call of main hands to its caller
Outcome(r) == [outcome |-> r.outcome, value |-> r.value]

\* the call of main that is over had its map
MapObtained ==
    \/ provider = "ok"
    \/ /\ city_name # ""
       /\ get_cached_data(files, "cache", "city_map",
                          << <<"city", PyStr(city_name)>>,
                             <<"country", PyStr("Turkey")>> >>,
                          "ok") # PyNone

\* C8: what main returns when the destination node cannot be reached from the
\* origin node differs from what it returns for the same request when the
\* map of the city cannot be obtained, and from what it returns when the
\* destination is the origin node.
C8_NoPathOutcomeDistinct ==
    (/\ main_pc = "done"
     /\ MapObtained
     /\ start_node # end_node
     /\ ~Reachable(G, start_node, end_node)) =>
        /\ main_result # Outcome(main(<<>>, G, NodeCoord(start_node),
                                      NodeCoord(end_node), vehicle_params,
                                      current_hour, "Ankara", "error",
                                      elevation_api))
        /\ main_result # Outcome(main(files, G, NodeCoord(start_node),
                                      NodeCoord(start_node), vehicle_params,
                                      current_hour, city_name, provider,
                                      elevation_api))

(***************************************************************************)
(* Claims about the /route endpoint.                                       *)
(***************************************************************************)
\* the call of eco_route.main in the handler returned the two routes
BothRoutes(computed) ==
    /\ computed.outcome = "return"
    /\ computed.value[1] # None
    /\ computed.value[2] # None

\* C21: when the two places are geocoded, the vehicle parameters are
\* generated and eco_route.main computes both routes, route_handler returns
\* a RouteResponse with these two routes and the message 'Routes computed
\* successfully'; and it raises an HTTP 500 only when the route computation
\* itself raised an exception that is no ValueError.
C21_RoutesReturned ==
    response # NoOp =>
        /\ BothRoutes(response.computed) =>
               /\ response.op = "return"
               /\ response.status = 200
               /\ response.shortest_route = response.computed.value[1]
               /\ response.eco_route = response.computed.value[2]
               /\ response.message = "Routes computed successfully"
        /\ response.status = 500 =>
               /\ response.computed.outcome = "raise"
               /\ response.computed.exception # "ValueError"

====
